---- MODULE Spec2Model ----
(***************************************************************************)
(* State-machine model of the RAG chat application: the ingestion          *)
(* callbacks load_doc_to_db / load_url_to_db, the vector store creation    *)
(* with its eviction pass (initialize_vector_db), and the two streaming    *)
(* generators stream_llm_response / stream_llm_rag_response driven by the  *)
(* chat input handling of app.py.                                          *)
(*                                                                         *)
(* Sessions 1 and 2 are modelled in full (st.session_state of each).       *)
(* Further sessions appear only through their first ingestion, which       *)
(* creates one collection in the process-wide Chroma client.               *)
(***************************************************************************)
EXTENDS Integers, Sequences, FiniteSets, TLC

(***************************************************************************)
(* Program constants.                                                      *)
(***************************************************************************)
\* rag_methods.py:23
DB_DOCS_LIMIT == 10
\* rag_methods.py:83, the literal of load_url_to_db
URL_DOCS_LIMIT == 10
\* rag_methods.py:111, "we will keep the last 20"
MAX_COLLECTIONS == 20
\* rag_methods.py:104, [:14]
NAME_CUT == 14
\* rag_methods.py:120 and 121
chunk_size == 5000
chunk_overlap == 1000

(***************************************************************************)
(* Bounds of the model.                                                    *)
(***************************************************************************)
\* length of the message list beyond which no new turn is started
MaxMessages == 4
\* fragments a completion stream yields at most
MaxFragments == 2
\* files in one change of the file uploader
MaxUpload == 2
\* collections created in one run
MaxCreates == 23
\* irregular events in one run: an embedding call that fails, a creation
\* that follows the previous reading of the clock after less than a second
MaxOdd == 1
\* decimal digits of the clock's fraction of a second
FracDigits == 5

\* calls of initialize_vector_db that can interleave their steps
MaxRacers == 2

Sessions == {1, 2}

Racers == 1..MaxRacers

(***************************************************************************)
(* Generic helpers.                                                        *)
(***************************************************************************)
Min(a, b) == IF a < b THEN a ELSE b
Max(a, b) == IF a < b THEN b ELSE a

Range(q) == {q[i] : i \in 1..Len(q)}

SeqsUpTo(S, n) == UNION {[1..k -> S] : k \in 0..n}

RECURSIVE Concat(_)
\* "".join(q) for a sequence of strings
Concat(q) == IF q = <<>> THEN "" ELSE Head(q) \o Concat(Tail(q))

VARIABLES
  \* ---- st.session_state of each session
  rag_sources,       \* list of registered source names
  vector_db,         \* name of the collection the handle refers to, <<>> if unset
  messages,          \* list of [role, content]
  use_rag,           \* the "Use RAG" toggle
  openai_api_key,    \* text of the OpenAI key input, a sequence of characters
  anthropic_api_key, \* text of the Anthropic key input
  model,             \* choice of the model selectbox, <<>> while it is not shown
  \* ---- position and locals of the running callback or turn
  pc,                \* "idle", "loop", "parse", "after_loop", "gen"
  queue,             \* load_doc_to_db: files of rag_docs not yet iterated
  docs,              \* load_doc_to_db: the local list docs
  notices,           \* what the running / last callback showed to the user
  turn,              \* "IDLE", "STREAMING", "DONE", "FAILED"
  path,              \* "plain" or "rag": generator chosen for the turn
  request,           \* the message list handed to the generator
  stream,            \* what the completion backend will still deliver
  response_message,  \* the generator's accumulator
  forwarded,         \* fragments yielded to st.write_stream in this turn
  error,             \* the exception that ended the session's last turn, "" if none
  \* ---- process-wide
  collections,       \* Chroma: set of [name, born, units]
  source_files,      \* names of the files present under ./source_files
  clock,             \* wall clock, in ticks since the model's epoch
  ncreated,          \* collections created so far (creation index)
  \* ---- environment bookkeeping
  presented,         \* files of the catalogue the user has offered so far
  nodd,              \* irregular events so far
  \* ---- calls of initialize_vector_db that run concurrently, step by step
  calls              \* position, collection name and collection_names of each such call

sessvars == <<rag_sources, vector_db, messages, use_rag>>
keyvars == <<openai_api_key, anthropic_api_key, model>>
loadvars == <<pc, queue, docs, notices>>
chatvars == <<turn, path, request, stream, response_message, forwarded, error>>
procvars == <<collections, source_files, clock, ncreated>>
envvars == <<presented, nodd, calls>>
vars == <<sessvars, keyvars, loadvars, chatvars, procvars, envvars>>


(***************************************************************************)
(* Collection names: f"{str(time()).replace('.', '')[:14]}_" + session_id. *)
(* Strings that are compared or sorted are sequences of code points.       *)
(***************************************************************************)
TicksPerSecond == 10 ^ FracDigits

\* time() truncated to whole seconds; the model's epoch is 1730844000
UnixSeconds(c) == 1730844000 + (c \div TicksPerSecond)

RECURSIVE DecDigits(_)
\* decimal digits of a natural number, "0" for 0
DecDigits(n) ==
  IF n < 10 THEN <<48 + n>> ELSE Append(DecDigits(n \div 10), 48 + (n % 10))

RECURSIVE PadTo(_, _)
PadTo(q, k) == IF Len(q) >= k THEN q ELSE PadTo(<<48>> \o q, k)

RECURSIVE StripZeros(_)
\* a float's repr drops the trailing zeros of the fraction and keeps one digit
StripZeros(q) ==
  IF Len(q) > 1 /\ q[Len(q)] = 48 THEN StripZeros(SubSeq(q, 1, Len(q) - 1)) ELSE q

\* str(time()): seconds, ".", shortest fraction
FloatStr(c) ==
  DecDigits(UnixSeconds(c)) \o <<46>>
    \o StripZeros(PadTo(DecDigits(c % TicksPerSecond), FracDigits))

\* .replace('.', '')
ReplaceDot(q) == SelectSeq(q, LAMBDA ch : ch # 46)

\* [:14]
Cut(q) == SubSeq(q, 1, Min(NAME_CUT, Len(q)))

HexChar(h) == IF h < 10 THEN 48 + h ELSE 87 + h

\* str(uuid.uuid4()) of the k-th session of the process: a fixed table of
\* pairwise different identifiers in which consecutive sessions compare
\* both ways
SessionId(k) == <<HexChar((k * 11) % 16), HexChar((k \div 16) % 16), HexChar(k % 16)>>

\* variant: the name is the time key alone
collection_name_time_only(c, sid) == Cut(ReplaceDot(FloatStr(c))) \o <<95>>

collection_name(c, sid) == Cut(ReplaceDot(FloatStr(c))) \o <<95>> \o sid

RECURSIVE LexLessFrom(_, _, _)
\* a[i:] < b[i:] by code points, a proper prefix being smaller
LexLessFrom(a, b, i) ==
  IF i > Len(b) THEN FALSE
  ELSE IF i > Len(a) THEN TRUE
  ELSE IF a[i] # b[i] THEN a[i] < b[i]
  ELSE LexLessFrom(a, b, i + 1)

\* Python's < on str
LexLess(a, b) == LexLessFrom(a, b, 1)

(***************************************************************************)
(* The Chroma client shared by the whole process.                          *)
(***************************************************************************)
Names(cols) == {c.name : c \in cols}

HasCollection(cols, n) == n \in Names(cols)

Collection(cols, n) == CHOOSE c \in cols : c.name = n

\* Chroma.from_documents: get_or_create_collection(name), then add the texts
from_documents(cols, n, units, born) ==
  IF HasCollection(cols, n)
  THEN {IF c.name = n THEN [c EXCEPT !.units = @ \o units] ELSE c : c \in cols}
  ELSE cols \cup {[name |-> n, born |-> born, units |-> units]}

\* vector_db.add_documents on an existing collection
add_documents(cols, n, units) ==
  {IF c.name = n THEN [c EXCEPT !.units = @ \o units] ELSE c : c \in cols}

\* sorted(...)[0]
First(ns) == CHOOSE n \in ns : \A m \in ns : m = n \/ LexLess(n, m)

\* variant: "if" in place of "while", one deletion per pass
evict_once(cols, ns) ==
  IF Cardinality(ns) > MAX_COLLECTIONS
  THEN {c \in cols : c.name # First(ns)}
  ELSE cols

RECURSIVE evict(_, _)
\* while len(collection_names) > 20: delete_collection(names[0]); names.pop(0)
evict(cols, ns) ==
  IF Cardinality(ns) > MAX_COLLECTIONS
  THEN LET first == First(ns)
       IN  evict({c \in cols : c.name # first}, ns \ {first})
  ELSE cols

RECURSIVE sorted(_)
\* sorted([collection.name for collection in chroma_client.list_collections()])
sorted(ns) ==
  IF ns = {} THEN <<>>
  ELSE LET first == First(ns) IN <<first>> \o sorted(ns \ {first})

\* variant: the names are listed before the collection is created
initialize_vector_db_list_first(cols, n, units, born) ==
  from_documents(evict(cols, Names(cols)), n, units, born)

\* initialize_vector_db: create, list, sort, delete the first ones
initialize_vector_db(cols, n, units, born) ==
  LET made == from_documents(cols, n, units, born)
  IN  evict(made, Names(made))

(***************************************************************************)
(* Documents and chunks.  A text is represented by its length; a Document  *)
(* or Chunk is [source, len].                                              *)
(***************************************************************************)
RECURSIVE split_text(_)
\* RecursiveCharacterTextSplitter(chunk_size=5000, chunk_overlap=1000) on a
\* text of n characters: the lengths of its chunks, in order
split_text(n) ==
  IF n <= chunk_size THEN <<n>>
  ELSE <<chunk_size>> \o split_text(n - (chunk_size - chunk_overlap))

RECURSIVE split_documents(_)
split_documents(ds) ==
  IF ds = <<>> THEN <<>>
  ELSE LET d == Head(ds)
           lens == split_text(d.len)
       IN  [i \in 1..Len(lens) |-> [source |-> d.source, len |-> lens[i]]]
             \o split_documents(Tail(ds))

(***************************************************************************)
(* What the user can offer.  File k of the catalogue is an UploadedFile    *)
(* with a name <<stem, extension>>, the MIME type the browser declared,    *)
(* and what its loader does: the lengths of the Documents it returns, or   *)
(* an exception.  The uploader of app.py 579-585 takes the extensions pdf, *)
(* txt, docx and md only; a Markdown file comes with the type text/markdown*)
(* or, where the browser knows no type for it, with another one.  New      *)
(* files are offered in catalogue order; the files offered last can be     *)
(* offered again.                                                          *)
(***************************************************************************)
\* size of the file catalogue
NFiles == 13

FileCat(k) ==
  CASE k = 1 -> [name |-> <<"f01", "txt">>, type |-> "text/plain",
                 pages |-> <<12000>>, raises |-> FALSE]
    [] k = 2 -> [name |-> <<"f02", "md">>, type |-> "application/octet-stream",
                 pages |-> <<800>>, raises |-> FALSE]
    [] k = 3 -> [name |-> <<"f03", "pdf">>, type |-> "application/pdf",
                 pages |-> <<3000, 7000>>, raises |-> FALSE]
    [] k = 4 -> [name |-> <<"f04", "pdf">>, type |-> "application/pdf",
                 pages |-> <<>>, raises |-> TRUE]
    [] k = 5 -> [name |-> <<"f05", "docx">>, type |-> "application/vnd.openxmlformats",
                 pages |-> <<5000>>, raises |-> FALSE]
    [] k = 6 -> [name |-> <<"f06", "md">>, type |-> "text/markdown",
                 pages |-> <<5001>>, raises |-> FALSE]
    [] k = 7 -> [name |-> <<"f07", "pdf">>, type |-> "application/pdf",
                 pages |-> <<>>, raises |-> FALSE]
    [] k = 8 -> [name |-> <<"f08", "md">>, type |-> "",
                 pages |-> <<700>>, raises |-> FALSE]
    [] OTHER -> [name |-> <<"f" \o ToString(k), "txt">>, type |-> "text/plain",
                 pages |-> <<100>>, raises |-> FALSE]

Files == 1..NFiles

\* the web pages a user can name: WebBaseLoader returns one Document or raises
Urls == {
  [name |-> <<"http://u1", "">>, pages |-> <<9000>>, raises |-> FALSE],
  [name |-> <<"http://u2", "">>, pages |-> <<>>, raises |-> TRUE]}

\* doc_file.name.endswith(".docx")
EndsWithDocx(name) == name[2] = "docx"

\* the if / elif chain of lines 49-57: which loader a file gets
LoaderFor(f) ==
  IF f.type = "application/pdf" THEN "PyPDFLoader"
  ELSE IF EndsWithDocx(f.name) THEN "Docx2txtLoader"
  ELSE IF f.type \in {"text/plain", "text/markdown"} THEN "TextLoader"
  ELSE "unsupported"

\* loader.load(): the Documents of a file or page, each with its source
Loaded(f) == [i \in 1..Len(f.pages) |-> [source |-> f.name, len |-> f.pages[i]]]

\* the lists of at most k files one change of the uploader can hold, given
\* that files 1..p have been offered before: the next new file of the
\* catalogue of n files, or one of the MaxUpload files offered last
RECURSIVE UploadListsUpTo(_, _, _)
UploadListsUpTo(p, n, k) ==
  IF k = 0 THEN {<<>>}
  ELSE {<<>>} \cup
       UNION {{<<f>> \o t : t \in UploadListsUpTo(Max(p, f), n, k - 1)} :
                f \in Max(1, p + 1 - MaxUpload)..Min(n, p + 1)}

UploadLists(p, n) == UploadListsUpTo(p, n, MaxUpload) \ {<<>>}

RECURSIVE MaxOf(_)
MaxOf(fs) == IF fs = <<>> THEN 0 ELSE Max(Head(fs), MaxOf(Tail(fs)))

(***************************************************************************)
(* The embedding backend and the clock are the environment of an           *)
(* ingestion: e.step is the time since the clock was last read, e.ok says  *)
(* whether OpenAIEmbeddings answers, e.leftover whether a failed           *)
(* from_documents leaves the collection it had already got-or-created.     *)
(***************************************************************************)
Odd(e) ==
  (IF e.step < TicksPerSecond THEN 1 ELSE 0) + (IF e.ok THEN 0 ELSE 1)

Envs(steps) ==
  {e \in [step : steps, ok : BOOLEAN, leftover : BOOLEAN] :
     /\ nodd + Odd(e) <= MaxOdd
     /\ e.ok => ~e.leftover}

\* the same with an embedding backend that always answers
Healthy(steps) == {e \in Envs(steps) : e.ok}

\* _split_and_load_docs(docs) of session sid holding handle db: the handle,
\* the collections and whether it raised
split_and_load_docs(sid, db, ds, e) ==
  LET document_chunks == split_documents(ds)
      now == clock + e.step
      cname == collection_name(now, sid)
  IN  IF db = <<>>
      THEN \* st.session_state.vector_db = initialize_vector_db(docs)
           IF e.ok
           THEN [raised |-> FALSE, db |-> cname, read |-> TRUE, born |-> 1,
                 cols |-> initialize_vector_db(collections, cname, ds, ncreated + 1)]
           ELSE [raised |-> TRUE, db |-> db, read |-> TRUE,
                 born |-> IF e.leftover THEN 1 ELSE 0,
                 cols |-> IF e.leftover
                          THEN from_documents(collections, cname, <<>>, ncreated + 1)
                          ELSE collections]
      ELSE \* st.session_state.vector_db.add_documents(document_chunks)
           IF e.ok /\ HasCollection(collections, db)
           THEN [raised |-> FALSE, db |-> db, read |-> FALSE, born |-> 0,
                 cols |-> add_documents(collections, db, document_chunks)]
           ELSE [raised |-> TRUE, db |-> db, read |-> FALSE, born |-> 0,
                 cols |-> collections]

\* the environment's bookkeeping of one embedding call
EnvAfter(r, e) ==
  /\ clock' = IF r.read THEN clock + e.step ELSE clock
  /\ ncreated' = ncreated + r.born
  /\ nodd' = nodd + (IF r.read THEN Odd(e) ELSE Odd([e EXCEPT !.step = TicksPerSecond]))

\* st.toggle("Use RAG", value=is_vector_db_loaded, disabled=not is_vector_db_loaded):
\* the rerun that follows a callback shows the toggle with its new default
\* once a vector_db has been stored
rerun_use_rag(old_db, new_db, flag) ==
  IF old_db = <<>> /\ new_db # <<>> THEN TRUE ELSE flag

Running(s) == turn[s] \in {"RECEIVED", "STREAMING"}

(***************************************************************************)
(* API keys and the choice of the model: app.py 30-35 and 525-561.  A key  *)
(* is the sequence of its characters; a model is <<provider, name>>, the   *)
(* two sides of the "/" of its entry in MODELS.                            *)
(***************************************************************************)
MODELS == <<
  <<"openai", "gpt-4o">>,
  <<"openai", "gpt-4o-mini">>,
  <<"anthropic", "claude-3-5-sonnet-20240620">> >>

\* the keys a user types: none, one without "sk-", two that hold "sk-"
OpenAIKeys == {<<>>, <<"a", "b", "c">>, <<"s", "k", "-", "1">>, <<"x", "s", "k", "-">>}
AnthropicKeys == {<<>>, <<"a", "k", "1">>}

\* "sk-" in key
HasSk(key) ==
  \E i \in 1..(Len(key) - 2) : SubSeq(key, i, i + 2) = <<"s", "k", "-">>

\* app.py 547 and 548
missing_openai(key) == key = <<>> \/ ~HasSk(key)
missing_anthropic(key) == key = <<>>

\* app.py 549: the page stops at the warning
Blocked(s) == missing_openai(openai_api_key[s]) /\ missing_anthropic(anthropic_api_key[s])

RECURSIVE SelectSeq2(_, _, _)
\* app.py 559: the list comprehension over MODELS
SelectSeq2(ms, ok, ak) ==
  IF ms = <<>> THEN <<>>
  ELSE LET m == Head(ms)
           keep == \/ (m[1] = "openai" /\ ~missing_openai(ok))
                   \/ (m[1] = "anthropic" /\ ~missing_anthropic(ak))
       IN  (IF keep THEN <<m>> ELSE <<>>) \o SelectSeq2(Tail(ms), ok, ak)

model_options(ok, ak) == SelectSeq2(MODELS, ok, ak)

\* variant: the choice outlives the options it was made from
model_after_rerun_stale(ok, ak, m) ==
  LET opts == model_options(ok, ak)
  IN  IF opts = <<>> THEN {<<>>}
      ELSE IF m = <<>> THEN {opts[1]} ELSE {m}

\* the selectbox after the rerun that follows a change of a key: not shown
\* while the page is blocked; otherwise the choice is kept if it is still
\* offered, or the widget starts again from its first option
model_after_rerun(ok, ak, m) ==
  LET opts == model_options(ok, ak)
  IN  IF opts = <<>> THEN {<<>>}
      ELSE IF m \in Range(opts) THEN {m, opts[1]} ELSE {opts[1]}

\* app.py 599-614: the client of the provider named before the "/" of the
\* chosen model, with the key of that provider
llm_stream(s) ==
  [provider |-> model[s][1],
   api_key |-> IF model[s][1] = "openai" THEN openai_api_key[s]
               ELSE anthropic_api_key[s]]

\* no callback and no turn of session s is under way, and the page is shown
Idle(s) == pc[s] = "idle" /\ ~Running(s) /\ ~Blocked(s)

\* the user changes the text of a key input; the script reruns
SetOpenAIKey(s, key) ==
  /\ pc[s] = "idle" /\ ~Running(s)
  /\ openai_api_key' = [openai_api_key EXCEPT ![s] = key]
  /\ \E m \in model_after_rerun(key, anthropic_api_key[s], model[s]) :
       model' = [model EXCEPT ![s] = m]
  /\ UNCHANGED <<sessvars, anthropic_api_key, loadvars, chatvars, procvars, envvars>>

SetAnthropicKey(s, key) ==
  /\ pc[s] = "idle" /\ ~Running(s)
  /\ anthropic_api_key' = [anthropic_api_key EXCEPT ![s] = key]
  /\ \E m \in model_after_rerun(openai_api_key[s], key, model[s]) :
       model' = [model EXCEPT ![s] = m]
  /\ UNCHANGED <<sessvars, openai_api_key, loadvars, chatvars, procvars, envvars>>

\* app.py 557-561: the user picks one of the models on offer
SelectModel(s, m) ==
  /\ Idle(s)
  /\ m \in Range(model_options(openai_api_key[s], anthropic_api_key[s]))
  /\ model' = [model EXCEPT ![s] = m]
  /\ UNCHANGED <<sessvars, openai_api_key, anthropic_api_key, loadvars, chatvars,
                 procvars, envvars>>

(***************************************************************************)
(* load_doc_to_db, the on_change callback of the file uploader.            *)
(***************************************************************************)
\* lines 39-40: rag_docs is not empty; docs = []
LoadDocStart(s, fs) ==
  /\ Idle(s)
  /\ fs # <<>>
  /\ pc' = [pc EXCEPT ![s] = "loop"]
  /\ queue' = [queue EXCEPT ![s] = fs]
  /\ docs' = [docs EXCEPT ![s] = <<>>]
  /\ notices' = [notices EXCEPT ![s] = {}]
  /\ presented' = [presented EXCEPT ![s] = Max(@, MaxOf(fs))]
  /\ UNCHANGED <<keyvars, sessvars, chatvars, procvars, nodd, calls>>

\* variant: "<=" in place of "<" in the test of the limit
load_doc_next_le(s, f) ==
  IF f.name \in Range(rag_sources[s])
  THEN [pc |-> "loop", notices |-> notices[s], files |-> source_files]
  ELSE IF Len(rag_sources[s]) <= DB_DOCS_LIMIT
  THEN [pc |-> "parse", notices |-> notices[s],
        files |-> {t \in source_files : t.name # f.name}
                    \cup {[name |-> f.name, by |-> s]}]
  ELSE [pc |-> "loop", notices |-> notices[s] \cup {"error_max"},
        files |-> source_files]

\* variant: the limit is tested before the name is looked up
load_doc_next_limit_first(s, f) ==
  IF Len(rag_sources[s]) >= DB_DOCS_LIMIT
  THEN [pc |-> "loop", notices |-> notices[s] \cup {"error_max"},
        files |-> source_files]
  ELSE IF f.name \in Range(rag_sources[s])
  THEN [pc |-> "loop", notices |-> notices[s], files |-> source_files]
  ELSE [pc |-> "parse", notices |-> notices[s],
        files |-> {t \in source_files : t.name # f.name}
                    \cup {[name |-> f.name, by |-> s]}]

\* lines 41-47 and 70-71: the next file is skipped, rejected, or written to
\* ./source_files/<name>
load_doc_next(s, f) ==
  IF f.name \in Range(rag_sources[s])
  THEN [pc |-> "loop", notices |-> notices[s], files |-> source_files]
  ELSE IF Len(rag_sources[s]) < DB_DOCS_LIMIT
  THEN [pc |-> "parse", notices |-> notices[s],
        files |-> {t \in source_files : t.name # f.name}
                    \cup {[name |-> f.name, by |-> s]}]
  ELSE [pc |-> "loop", notices |-> notices[s] \cup {"error_max"},
        files |-> source_files]

LoadDocNext(s) ==
  /\ pc[s] = "loop"
  /\ queue[s] # <<>>
  /\ LET r == load_doc_next(s, FileCat(Head(queue[s])))
     IN  /\ pc' = [pc EXCEPT ![s] = r.pc]
         /\ notices' = [notices EXCEPT ![s] = r.notices]
         /\ source_files' = r.files
         /\ queue' = [queue EXCEPT ![s] = IF r.pc = "loop" THEN Tail(@) ELSE @]
  /\ UNCHANGED <<keyvars, sessvars, docs, chatvars, collections, clock, ncreated, envvars>>

\* variant: the else branch lacks its "continue" and the name is registered
load_doc_parse_no_continue(s, f) ==
  LET left == {t \in source_files : t.name # f.name}
  IN  IF LoaderFor(f) = "unsupported"
      THEN [docs |-> docs[s], sources |-> Append(rag_sources[s], f.name),
            files |-> left, notices |-> notices[s] \cup {"warning_unsupported"},
            raised |-> FALSE]
      ELSE IF f.raises
      THEN [docs |-> docs[s], sources |-> rag_sources[s], files |-> left,
            notices |-> notices[s] \cup {"toast_error"}, raised |-> FALSE]
      ELSE [docs |-> docs[s] \o Loaded(f), sources |-> Append(rag_sources[s], f.name),
            files |-> left, notices |-> notices[s], raised |-> FALSE]

\* variant: os.remove follows the load instead of standing in a finally clause
load_doc_parse_no_finally(s, f) ==
  LET left == {t \in source_files : t.name # f.name}
  IN  IF LoaderFor(f) = "unsupported"
      THEN [docs |-> docs[s], sources |-> rag_sources[s], files |-> source_files,
            notices |-> notices[s] \cup {"warning_unsupported"}, raised |-> FALSE]
      ELSE IF f.raises
      THEN [docs |-> docs[s], sources |-> rag_sources[s], files |-> source_files,
            notices |-> notices[s] \cup {"toast_error"}, raised |-> FALSE]
      ELSE [docs |-> docs[s] \o Loaded(f), sources |-> Append(rag_sources[s], f.name),
            files |-> left, notices |-> notices[s], raised |-> FALSE]

\* variant: no except clause, the loader's exception ends the callback
load_doc_parse_no_except(s, f) ==
  LET left == {t \in source_files : t.name # f.name}
  IN  IF LoaderFor(f) = "unsupported"
      THEN [docs |-> docs[s], sources |-> rag_sources[s], files |-> left,
            notices |-> notices[s] \cup {"warning_unsupported"}, raised |-> FALSE]
      ELSE IF f.raises
      THEN [docs |-> docs[s], sources |-> rag_sources[s], files |-> left,
            notices |-> notices[s], raised |-> TRUE]
      ELSE [docs |-> docs[s] \o Loaded(f), sources |-> Append(rag_sources[s], f.name),
            files |-> left, notices |-> notices[s], raised |-> FALSE]

\* lines 49-68: try / except / finally around the loader of one file
load_doc_parse(s, f) ==
  LET gone == ~\E t \in source_files : t.name = f.name
      left == {t \in source_files : t.name # f.name}
  IN  IF LoaderFor(f) = "unsupported"
      THEN \* st.warning; continue; the finally clause runs
           [docs |-> docs[s], sources |-> rag_sources[s], files |-> left,
            notices |-> notices[s] \cup {"warning_unsupported"}, raised |-> gone]
      ELSE IF f.raises \/ gone
      THEN \* except Exception: st.toast; finally
           [docs |-> docs[s], sources |-> rag_sources[s], files |-> left,
            notices |-> notices[s] \cup {"toast_error"}, raised |-> gone]
      ELSE \* docs.extend(loader.load()); rag_sources.append(name); finally
           [docs |-> docs[s] \o Loaded(f), sources |-> Append(rag_sources[s], f.name),
            files |-> left, notices |-> notices[s], raised |-> FALSE]

LoadDocParse(s) ==
  /\ pc[s] = "parse"
  /\ LET r == load_doc_parse(s, FileCat(Head(queue[s])))
     IN  /\ docs' = [docs EXCEPT ![s] = r.docs]
         /\ rag_sources' = [rag_sources EXCEPT ![s] = r.sources]
         /\ source_files' = r.files
         /\ notices' = [notices EXCEPT ![s] =
                          IF r.raised THEN r.notices \cup {"uncaught"} ELSE r.notices]
         \* os.remove of a file that is gone raises out of the callback
         /\ pc' = [pc EXCEPT ![s] = IF r.raised THEN "idle" ELSE "loop"]
         /\ queue' = [queue EXCEPT ![s] = IF r.raised THEN <<>> ELSE Tail(@)]
  /\ UNCHANGED <<keyvars, vector_db, messages, use_rag, chatvars, collections, clock,
                 ncreated, envvars>>

\* lines 73-75: if docs: _split_and_load_docs(docs); st.toast(...)
load_doc_finish(s, e) ==
  IF docs[s] = <<>>
  THEN [raised |-> FALSE, db |-> vector_db[s], read |-> FALSE, born |-> 0,
        cols |-> collections, notices |-> notices[s]]
  ELSE LET r == split_and_load_docs(SessionId(s), vector_db[s], docs[s], e)
       IN  [raised |-> r.raised, db |-> r.db, read |-> r.read, born |-> r.born,
            cols |-> r.cols,
            notices |-> notices[s] \cup
                          (IF r.raised THEN {"uncaught"} ELSE {"toast_loaded"})]

LoadDocFinish(s, e) ==
  /\ pc[s] = "loop"
  /\ queue[s] = <<>>
  /\ docs[s] = <<>> => (e.ok /\ e.step = TicksPerSecond)
  /\ (docs[s] # <<>> /\ vector_db[s] = <<>>) => ncreated < MaxCreates
  /\ LET r == load_doc_finish(s, e)
     IN  /\ vector_db' = [vector_db EXCEPT ![s] = r.db]
         /\ collections' = r.cols
         /\ notices' = [notices EXCEPT ![s] = r.notices]
         /\ use_rag' = [use_rag EXCEPT ![s] = rerun_use_rag(vector_db[s], r.db, @)]
         /\ IF docs[s] = <<>>
            THEN UNCHANGED <<clock, ncreated, nodd>>
            ELSE EnvAfter(r, e)
  /\ pc' = [pc EXCEPT ![s] = "idle"]
  /\ docs' = [docs EXCEPT ![s] = <<>>]
  /\ UNCHANGED <<keyvars, rag_sources, messages, queue, chatvars, source_files, presented,
                 calls>>

(***************************************************************************)
(* load_url_to_db, the on_change callback of the URL input.                *)
(***************************************************************************)
load_url(s, u, e) ==
  LET same == [sources |-> rag_sources[s], db |-> vector_db[s],
               cols |-> collections, notices |-> {}, called |-> FALSE,
               raised |-> FALSE, read |-> FALSE, born |-> 0]
  IN  IF u.name \in Range(rag_sources[s])
      THEN same
      ELSE IF Len(rag_sources[s]) < URL_DOCS_LIMIT
      THEN IF u.raises
           THEN \* except Exception: st.error; docs stays empty
                [same EXCEPT !.notices = {"error_load"}]
           ELSE \* docs.extend(loader.load()); rag_sources.append(url);
                \* if docs: _split_and_load_docs(docs); st.toast
                LET r == split_and_load_docs(SessionId(s), vector_db[s], Loaded(u), e)
                IN  [sources |-> Append(rag_sources[s], u.name), db |-> r.db,
                     cols |-> r.cols, called |-> TRUE, raised |-> r.raised,
                     read |-> r.read, born |-> r.born,
                     notices |-> IF r.raised THEN {"uncaught"} ELSE {"toast_loaded"}]
      ELSE [same EXCEPT !.notices = {"error_max"}]

LoadUrl(s, u, e) ==
  /\ Idle(s)
  /\ LET r == load_url(s, u, e)
     IN  /\ ~r.called => (e.ok /\ e.step = TicksPerSecond)
         /\ (r.called /\ vector_db[s] = <<>>) => ncreated < MaxCreates
         /\ rag_sources' = [rag_sources EXCEPT ![s] = r.sources]
         /\ vector_db' = [vector_db EXCEPT ![s] = r.db]
         /\ collections' = r.cols
         /\ notices' = [notices EXCEPT ![s] = r.notices]
         /\ use_rag' = [use_rag EXCEPT ![s] = rerun_use_rag(vector_db[s], r.db, @)]
         /\ IF r.called
            THEN EnvAfter(r, e)
            ELSE UNCHANGED <<clock, ncreated, nodd>>
  /\ UNCHANGED <<keyvars, messages, pc, queue, docs, chatvars, source_files, presented,
                 calls>>

(***************************************************************************)
(* A session other than 1 and 2 ingests its first source: the only thing   *)
(* it does to the shared state is its call of initialize_vector_db.        *)
(***************************************************************************)
OtherDocs == <<[source |-> <<"other", "txt">>, len |-> 100]>>

OtherCreate(e) ==
  /\ ncreated < MaxCreates
  /\ LET r == split_and_load_docs(SessionId(ncreated + 3), <<>>, OtherDocs, e)
     IN  /\ collections' = r.cols
         /\ EnvAfter(r, e)
  /\ UNCHANGED <<keyvars, sessvars, loadvars, chatvars, source_files, presented, calls>>

(***************************************************************************)
(* A chat turn: app.py 620-634 and the generators of rag_methods.py.       *)
(***************************************************************************)
Prompts == {"q"}
Fragments == {"Hel", "lo"}

\* what the completion backend does with a request: the fragments it
\* yields and whether it then raises instead of ending the stream
Scripts == [frags : SeqsUpTo(Fragments, MaxFragments), fails : BOOLEAN]

\* app.py 62-497
system_message == [role |-> "system", content |-> "SYSTEM"]

\* app.py 56-60
InitialMessages ==
  <<[role |-> "user", content |-> "Hello"],
    [role |-> "assistant", content |-> "Hi there! How can I assist you today?"]>>

\* app.py 629: [m for m in st.session_state.messages if m["role"] != "system"]
non_system(ms) == SelectSeq(ms, LAMBDA m : m.role # "system")

\* app.py 620-634: the user message is appended and the generator of the
\* chosen path is handed to st.write_stream
ChatInput(s, prompt, script) ==
  /\ Idle(s)
  /\ Len(messages[s]) < MaxMessages
  /\ LET ms == Append(messages[s], [role |-> "user", content |-> prompt])
     IN  /\ messages' = [messages EXCEPT ![s] = ms]
         /\ request' = [request EXCEPT ![s] = <<system_message>> \o non_system(ms)]
  /\ path' = [path EXCEPT ![s] = IF use_rag[s] THEN "rag" ELSE "plain"]
  /\ response_message' = [response_message EXCEPT ![s] =
                            IF use_rag[s] THEN "*(RAG Response)*\n" ELSE ""]
  /\ forwarded' = [forwarded EXCEPT ![s] = <<>>]
  /\ error' = [error EXCEPT ![s] = ""]
  /\ stream' = [stream EXCEPT ![s] = script]
  /\ turn' = [turn EXCEPT ![s] = "RECEIVED"]
  /\ UNCHANGED <<keyvars, rag_sources, vector_db, use_rag, loadvars, procvars, envvars>>

\* rag_methods.py 2105: {"messages": messages[:-1], "input": messages[-1].content}.
\* Every element of the request is a dict (app.py 57-60, 63, 621 and
\* rag_methods.py 32, 2109 build dicts, nothing converts them), and a dict
\* has no attribute content: evaluating the argument raises AttributeError.
rag_chain_input(req) ==
  [raised |-> TRUE, messages |-> SubSeq(req, 1, Len(req) - 1), input |-> ""]

\* stream_llm_rag_response up to the first fragment: the chain is built from
\* st.session_state.vector_db (2103), the argument of stream() is evaluated
\* (2105), and the chain's retriever searches the collection of the handle;
\* the exception that ends the generator, "" if it goes on to stream
rag_start(s) ==
  IF vector_db[s] = <<>> THEN "AttributeError"
  ELSE IF rag_chain_input(request[s]).raised THEN "AttributeError"
  ELSE IF ~HasCollection(collections, vector_db[s]) THEN "CollectionNotFound"
  ELSE ""

RagStart(s) ==
  /\ turn[s] = "RECEIVED"
  /\ path[s] = "rag"
  /\ pc[s] = "idle"
  /\ error' = [error EXCEPT ![s] = rag_start(s)]
  /\ pc' = [pc EXCEPT ![s] = IF rag_start(s) = "" THEN "gen" ELSE "idle"]
  /\ turn' = [turn EXCEPT ![s] = IF rag_start(s) = "" THEN "RECEIVED" ELSE "FAILED"]
  /\ request' = [request EXCEPT ![s] = IF rag_start(s) = "" THEN @ ELSE <<>>]
  /\ response_message' = [response_message EXCEPT ![s] =
                            IF rag_start(s) = "" THEN @ ELSE ""]
  /\ UNCHANGED <<keyvars, sessvars, queue, docs, notices, path, stream, forwarded,
                 procvars, envvars>>

\* stream_llm_response up to the call of stream()
PlainStart(s) ==
  /\ turn[s] = "RECEIVED"
  /\ path[s] = "plain"
  /\ pc[s] = "idle"
  /\ pc' = [pc EXCEPT ![s] = "gen"]
  /\ UNCHANGED <<keyvars, sessvars, queue, docs, notices, chatvars, procvars, envvars>>

\* for chunk in ...stream(...): response_message += chunk; yield chunk
StreamFragment(s) ==
  /\ pc[s] = "gen"
  /\ stream[s].frags # <<>>
  /\ response_message' = [response_message EXCEPT ![s] = @ \o Head(stream[s].frags)]
  /\ forwarded' = [forwarded EXCEPT ![s] = Append(@, Head(stream[s].frags))]
  /\ stream' = [stream EXCEPT ![s].frags = Tail(@)]
  /\ turn' = [turn EXCEPT ![s] = "STREAMING"]
  /\ UNCHANGED <<keyvars, sessvars, loadvars, path, request, error, procvars, envvars>>

\* the stream ends: the statement after the loop appends the assistant message
StreamEnd(s) ==
  /\ pc[s] = "gen"
  /\ stream[s].frags = <<>>
  /\ ~stream[s].fails
  /\ messages' = [messages EXCEPT ![s] =
                    Append(@, [role |-> "assistant", content |-> response_message[s]])]
  /\ turn' = [turn EXCEPT ![s] = "DONE"]
  /\ pc' = [pc EXCEPT ![s] = "idle"]
  \* the generator's frame is gone
  /\ request' = [request EXCEPT ![s] = <<>>]
  /\ response_message' = [response_message EXCEPT ![s] = ""]
  /\ UNCHANGED <<keyvars, rag_sources, vector_db, use_rag, queue, docs, notices, path,
                 stream, forwarded, error, procvars, envvars>>

\* variant: the failure of a turn resets the conversation
StreamError_resets(s) ==
  /\ pc[s] = "gen"
  /\ stream[s].frags = <<>>
  /\ stream[s].fails
  /\ turn' = [turn EXCEPT ![s] = "FAILED"]
  /\ pc' = [pc EXCEPT ![s] = "idle"]
  /\ messages' = [messages EXCEPT ![s] = <<>>]
  /\ request' = [request EXCEPT ![s] = <<>>]
  /\ response_message' = [response_message EXCEPT ![s] = ""]
  /\ error' = [error EXCEPT ![s] = "BackendError"]
  /\ UNCHANGED <<keyvars, rag_sources, vector_db, use_rag, queue, docs, notices, path,
                 stream, forwarded, procvars, envvars>>

\* the backend raises: nothing in the generator catches it, the statement
\* after the loop is not reached and the exception leaves st.write_stream
StreamError(s) ==
  /\ pc[s] = "gen"
  /\ stream[s].frags = <<>>
  /\ stream[s].fails
  /\ turn' = [turn EXCEPT ![s] = "FAILED"]
  /\ pc' = [pc EXCEPT ![s] = "idle"]
  \* the generator's frame is gone
  /\ request' = [request EXCEPT ![s] = <<>>]
  /\ response_message' = [response_message EXCEPT ![s] = ""]
  /\ error' = [error EXCEPT ![s] = "BackendError"]
  /\ UNCHANGED <<keyvars, sessvars, queue, docs, notices, path, stream, forwarded,
                 procvars, envvars>>

\* variant: the button clears the sources of the session with its messages
ClearChat_and_sources(s) ==
  /\ Idle(s)
  /\ messages' = [messages EXCEPT ![s] = <<>>]
  /\ rag_sources' = [rag_sources EXCEPT ![s] = <<>>]
  /\ UNCHANGED <<keyvars, vector_db, use_rag, loadvars, chatvars, procvars, envvars>>

\* variant: the button puts the conversation back to its two first messages
ClearChat_restarts(s) ==
  /\ Idle(s)
  /\ messages' = [messages EXCEPT ![s] = InitialMessages]
  /\ UNCHANGED <<keyvars, rag_sources, vector_db, use_rag, loadvars, chatvars, procvars,
                 envvars>>

\* app.py 574: on_click=lambda: st.session_state.messages.clear()
ClearChat(s) ==
  /\ Idle(s)
  /\ messages' = [messages EXCEPT ![s] = <<>>]
  /\ UNCHANGED <<keyvars, rag_sources, vector_db, use_rag, loadvars, chatvars, procvars, envvars>>

\* variant: the toggle is never disabled
ToggleRag_enabled(s) ==
  /\ Idle(s)
  /\ use_rag' = [use_rag EXCEPT ![s] = ~@]
  /\ UNCHANGED <<keyvars, rag_sources, vector_db, messages, loadvars, chatvars, procvars, envvars>>

\* app.py 565-571: the toggle can be used once a vector_db is loaded
ToggleRag(s) ==
  /\ Idle(s)
  /\ vector_db[s] # <<>>
  /\ use_rag' = [use_rag EXCEPT ![s] = ~@]
  /\ UNCHANGED <<keyvars, rag_sources, vector_db, messages, loadvars, chatvars, procvars, envvars>>

(***************************************************************************)
(* Initial state: app.py 50-60 has run for each session, nothing has been  *)
(* ingested, the Chroma client holds no collection.                        *)
(***************************************************************************)
InitSession(c) ==
  /\ rag_sources = [s \in Sessions |-> <<>>]
  /\ vector_db = [s \in Sessions |-> <<>>]
  /\ messages = [s \in Sessions |-> InitialMessages]
  /\ use_rag = [s \in Sessions |-> FALSE]
  /\ pc = [s \in Sessions |-> "idle"]
  /\ queue = [s \in Sessions |-> <<>>]
  /\ docs = [s \in Sessions |-> <<>>]
  /\ notices = [s \in Sessions |-> {}]
  /\ turn = [s \in Sessions |-> "IDLE"]
  /\ path = [s \in Sessions |-> "plain"]
  /\ request = [s \in Sessions |-> <<>>]
  /\ stream = [s \in Sessions |-> [frags |-> <<>>, fails |-> FALSE]]
  /\ response_message = [s \in Sessions |-> ""]
  /\ forwarded = [s \in Sessions |-> <<>>]
  /\ error = [s \in Sessions |-> ""]
  /\ collections = {}
  /\ source_files = {}
  /\ clock = c
  /\ ncreated = 0
  /\ presented = [s \in Sessions |-> 0]
  /\ nodd = 0
  /\ calls = [r \in Racers |-> [pc |-> "idle", name |-> <<>>, names |-> <<>>]]

\* the keys come from the environment of a development installation
InitAt(c) ==
  /\ InitSession(c)
  /\ openai_api_key = [s \in Sessions |-> <<"s", "k", "-", "1">>]
  /\ anthropic_api_key = [s \in Sessions |-> <<>>]
  /\ model = [s \in Sessions |-> MODELS[1]]

\* the clock at the start: a whole second, or a time with a full fraction
ClockStarts == {0, 12345}

\* time between two readings of the clock: 10^-FracDigits s, 50 ms, 1 s
ClockSteps == {1, TicksPerSecond \div 20, TicksPerSecond}

Regular == {TicksPerSecond}

(***************************************************************************)
(* Ingestion in one session: files and URLs up to the limit of sources.    *)
(***************************************************************************)
InitIngest == InitAt(0)

NextIngest ==
  \E s \in {1} :
    \/ \E fs \in UploadLists(presented[s], NFiles) : LoadDocStart(s, fs)
    \/ LoadDocNext(s)
    \/ LoadDocParse(s)
    \/ \E e \in Healthy(Regular) : LoadDocFinish(s, e)
    \/ \E u \in Urls, e \in Healthy(Regular) : LoadUrl(s, u, e)

SpecIngest == InitIngest /\ [][NextIngest]_vars

(***************************************************************************)
(* Ingestion of the first files of the catalogue and of URLs while the     *)
(* embedding backend may fail.                                             *)
(***************************************************************************)
\* files of the catalogue offered while the backend may fail
OutageFiles == 4

InitOutage == InitAt(0)

NextOutage ==
  \E s \in {1} :
    \/ \E fs \in UploadLists(presented[s], OutageFiles) : LoadDocStart(s, fs)
    \/ LoadDocNext(s)
    \/ LoadDocParse(s)
    \/ \E e \in Envs(Regular) : LoadDocFinish(s, e)
    \/ \E u \in Urls, e \in Envs(Regular) : LoadUrl(s, u, e)

SpecOutage == InitOutage /\ [][NextOutage]_vars

(***************************************************************************)
(* Chat turns of one session, with the ingestion of a URL to load a        *)
(* vector_db.                                                              *)
(***************************************************************************)
InitChat == InitAt(0)

NextChat ==
  \E s \in {1} :
    \/ \E p \in Prompts, sc \in Scripts : ChatInput(s, p, sc)
    \/ PlainStart(s)
    \/ RagStart(s)
    \/ StreamFragment(s)
    \/ StreamEnd(s)
    \/ StreamError(s)
    \/ ClearChat(s)
    \/ ToggleRag(s)
    \/ \E u \in Urls, e \in Healthy(Regular) : LoadUrl(s, u, e)

SpecChat == InitChat /\ [][NextChat]_vars

(***************************************************************************)
(* Creation and eviction of collections by any number of sessions, one     *)
(* call of initialize_vector_db at a time.                                 *)
(***************************************************************************)
InitEvict == \E c \in ClockStarts : InitAt(c)

NextEvict == \E e \in Envs(ClockSteps) : OtherCreate(e)

SpecEvict == InitEvict /\ [][NextEvict]_vars

(***************************************************************************)
(* One session that ingests a URL and chats while other sessions create    *)
(* their collections, one call of initialize_vector_db at a time.          *)
(***************************************************************************)
\* the backend answers every request of this session with one fragment
SharedScripts == {[frags |-> <<"Hel">>, fails |-> FALSE]}

InitShared == InitAt(0)

NextShared ==
  \/ \E e \in Healthy(Regular) : OtherCreate(e)
  \/ \E s \in {1} :
       \/ \E u \in Urls, e \in Healthy(Regular) : LoadUrl(s, u, e)
       \/ \E p \in Prompts, sc \in SharedScripts : ChatInput(s, p, sc)
       \/ PlainStart(s)
       \/ RagStart(s)
       \/ StreamFragment(s)
       \/ StreamEnd(s)
       \/ ToggleRag(s)

SpecShared == InitShared /\ [][NextShared]_vars

(***************************************************************************)
(* initialize_vector_db run by several sessions at once, each in its       *)
(* script thread: the creation (101-105), the listing (109) and every      *)
(* turn of the while loop (111-113) are steps that interleave.  Calls that *)
(* run alone are the steps OtherCreate.                                    *)
(***************************************************************************)
InFlight(r) == calls[r].pc \in {"made", "listed"}

\* lines 101-105
CallCreate(r, e) ==
  /\ calls[r].pc = "idle"
  /\ ncreated < MaxCreates
  /\ collections' =
       from_documents(collections,
                      collection_name(clock + e.step, SessionId(ncreated + 3)),
                      OtherDocs, ncreated + 1)
  /\ clock' = clock + e.step
  /\ ncreated' = ncreated + 1
  /\ calls' = [calls EXCEPT ![r] =
                [pc |-> "made", names |-> <<>>,
                 name |-> collection_name(clock + e.step, SessionId(ncreated + 3))]]
  /\ UNCHANGED <<keyvars, sessvars, loadvars, chatvars, source_files, presented, nodd>>

\* lines 108-110
CallList(r) ==
  /\ calls[r].pc = "made"
  /\ calls' = [calls EXCEPT ![r].pc = "listed", ![r].names = sorted(Names(collections))]
  /\ UNCHANGED <<keyvars, sessvars, loadvars, chatvars, procvars, presented, nodd>>

\* lines 111-115: one test of the loop condition and, if it holds, one
\* delete_collection and pop; the deletion of a collection that another
\* call has deleted raises or, if quiet, does nothing, as the client does
CallDelete(r, quiet) ==
  /\ calls[r].pc = "listed"
  /\ LET names == calls[r].names
     IN  IF Len(names) > MAX_COLLECTIONS
         THEN IF HasCollection(collections, names[1]) \/ quiet
              THEN /\ collections' = {c \in collections : c.name # names[1]}
                   /\ calls' = [calls EXCEPT ![r].names = Tail(names)]
              ELSE /\ calls' = [calls EXCEPT ![r] =
                                  [pc |-> "raised", name |-> <<>>, names |-> <<>>]]
                   /\ UNCHANGED collections
         ELSE /\ calls' = [calls EXCEPT ![r] =
                             [pc |-> "returned", name |-> <<>>, names |-> <<>>]]
              /\ UNCHANGED collections
  /\ UNCHANGED <<keyvars, sessvars, loadvars, chatvars, source_files, clock, ncreated,
                 presented, nodd>>

NoneInFlight == \A r \in Racers : ~InFlight(r)

InitRace == InitAt(0)

NextRace ==
  \/ NoneInFlight /\ \E e \in Healthy(Regular) : OtherCreate(e)
  \/ \E r \in Racers :
       \/ \E e \in Healthy(Regular) : CallCreate(r, e)
       \/ CallList(r)
       \/ \E quiet \in BOOLEAN : CallDelete(r, quiet)

SpecRace == InitRace /\ [][NextRace]_vars

(***************************************************************************)
(* One session whose user types keys, picks models and chats on the plain  *)
(* path; no key is set in the environment.                                 *)
(***************************************************************************)
InitKeys ==
  /\ InitSession(0)
  /\ openai_api_key = [s \in Sessions |-> <<>>]
  /\ anthropic_api_key = [s \in Sessions |-> <<>>]
  /\ model = [s \in Sessions |-> <<>>]

NextKeys ==
  \E s \in {1} :
    \/ \E key \in OpenAIKeys : SetOpenAIKey(s, key)
    \/ \E key \in AnthropicKeys : SetAnthropicKey(s, key)
    \/ \E m \in Range(MODELS) : SelectModel(s, m)
    \/ \E p \in Prompts, sc \in SharedScripts : ChatInput(s, p, sc)
    \/ PlainStart(s)
    \/ StreamFragment(s)
    \/ StreamEnd(s)
    \/ ClearChat(s)

SpecKeys == InitKeys /\ [][NextKeys]_vars

(***************************************************************************)
(* Session 1 ingests URLs while other sessions create their                *)
(* collections; the script threads of different sessions can read the      *)
(* clock at the same time, two callbacks of one session are at least one   *)
(* request to the embedding backend and one rerun of the script, 50 ms,    *)
(* apart.                                                                  *)
(***************************************************************************)
\* time between the readings of the clock by threads of different sessions
ThreadSteps == {0, 1, TicksPerSecond}

\* time between a reading of the clock and a later callback of a session
CallbackSteps == {TicksPerSecond \div 20, TicksPerSecond}

\* collections created in a run of the sessions that read the clock together
NamesCreates == 4

InitNames == InitAt(12345)

NextNames ==
  \/ ncreated < NamesCreates /\ \E e \in Envs(ThreadSteps) : OtherCreate(e)
  \/ \E s \in {1}, u \in Urls, e \in Envs(CallbackSteps) : LoadUrl(s, u, e)

SpecNames == InitNames /\ [][NextNames]_vars

(***************************************************************************)
(* Two sessions upload files of the same names at the same time: each      *)
(* callback runs in the script thread of its session, and the statements   *)
(* of load_doc_to_db that touch ./source_files interleave.                 *)
(***************************************************************************)
\* files of the catalogue that both sessions upload
SharedFiles == 2

InitUploads == InitAt(0)

NextUploads ==
  \E s \in Sessions :
    \/ \E fs \in UploadLists(presented[s], SharedFiles) : LoadDocStart(s, fs)
    \/ LoadDocNext(s)
    \/ LoadDocParse(s)
    \/ \E e \in Healthy(Regular) : LoadDocFinish(s, e)

SpecUploads == InitUploads /\ [][NextUploads]_vars

(***************************************************************************)
(* One call of initialize_vector_db that runs step by step while other     *)
(* sessions make their calls: the thread of the call is not scheduled      *)
(* while the threads of the other sessions run.                            *)
(***************************************************************************)
InitBurst == InitAt(0)

NextBurst ==
  \/ \E e \in Healthy(Regular) : OtherCreate(e)
  \/ \E r \in {1} :
       \/ \E e \in Healthy(Regular) : CallCreate(r, e)
       \/ CallList(r)
       \/ \E quiet \in BOOLEAN : CallDelete(r, quiet)

SpecBurst == InitBurst /\ [][NextBurst]_vars

(***************************************************************************)
(* One session that ingests a URL and files while other sessions create    *)
(* their collections, one call of initialize_vector_db at a time.          *)
(***************************************************************************)
InitReingest == InitAt(0)

NextReingest ==
  \/ \E e \in Healthy(Regular) : OtherCreate(e)
  \/ \E s \in {1} :
       \/ \E u \in Urls, e \in Healthy(Regular) : LoadUrl(s, u, e)
       \/ \E fs \in UploadLists(presented[s], SharedFiles) : LoadDocStart(s, fs)
       \/ LoadDocNext(s)
       \/ LoadDocParse(s)
       \/ \E e \in Healthy(Regular) : LoadDocFinish(s, e)

SpecReingest == InitReingest /\ [][NextReingest]_vars

(***************************************************************************)
(* One session whose user types keys and ingests URLs; no key is set in    *)
(* the environment, and the embedding backend answers or refuses.          *)
(***************************************************************************)
InitKeyIngest == InitKeys

NextKeyIngest ==
  \E s \in {1} :
    \/ \E key \in OpenAIKeys : SetOpenAIKey(s, key)
    \/ \E key \in AnthropicKeys : SetAnthropicKey(s, key)
    \/ \E u \in Urls, e \in Envs(Regular) : LoadUrl(s, u, e)

SpecKeyIngest == InitKeyIngest /\ [][NextKeyIngest]_vars

(***************************************************************************)
(* One session that chats, clears its conversation and ingests URLs and    *)
(* files while the embedding backend may fail.                             *)
(***************************************************************************)
InitFrame == InitAt(0)

NextFrame ==
  \E s \in {1} :
    \/ \E p \in Prompts, sc \in SharedScripts : ChatInput(s, p, sc)
    \/ PlainStart(s)
    \/ RagStart(s)
    \/ StreamFragment(s)
    \/ StreamEnd(s)
    \/ ClearChat(s)
    \/ \E u \in Urls, e \in Envs(Regular) : LoadUrl(s, u, e)
    \/ \E fs \in UploadLists(presented[s], SharedFiles) : LoadDocStart(s, fs)
    \/ LoadDocNext(s)
    \/ LoadDocParse(s)
    \/ \E e \in Envs(Regular) : LoadDocFinish(s, e)

SpecFrame == InitFrame /\ [][NextFrame]_vars

(***************************************************************************)
(* Properties.                                                             *)
(***************************************************************************)
\* the completion backend raises after at least one fragment was forwarded
MidStreamError(s) ==
  pc[s] = "gen" /\ stream[s].frags = <<>> /\ stream[s].fails /\ forwarded[s] # <<>>

\* C1: when the completion stream raises after some fragments, the turn ends
\* in DONE and an assistant message holding the text accumulated so far is
\* appended to the session's messages; the turn is not reported as failed.
C1_PartialAnswerKept ==
  [][\A s \in Sessions :
       MidStreamError(s) =>
         /\ turn'[s] = "DONE"
         /\ messages'[s] =
              Append(messages[s], [role |-> "assistant", content |-> response_message[s]])
    ]_vars

\* C2: every text unit embedded into a collection is a chunk of the
\* splitter, hence at most chunk_size characters long, after the first
\* ingestion of a session as after every later one.
C2_OnlyChunksEmbedded ==
  \A c \in collections : \A i \in 1..Len(c.units) : c.units[i].len <= chunk_size

\* a call of initialize_vector_db returns: its eviction pass has finished
EvictionPassFinished == \E e \in Healthy(ClockSteps) : OtherCreate(e)

\* C3: when the eviction pass of a create call has finished, at most
\* MAX_COLLECTIONS collections are live, whatever was created before.
C3_EvictionBound ==
  [][EvictionPassFinished => Cardinality(collections') <= MAX_COLLECTIONS]_vars

\* C3, witness: 22 collections have been created, the last creation evicted
C3_Witness ==
  /\ ncreated = MAX_COLLECTIONS + 2
  /\ Cardinality(collections) = MAX_COLLECTIONS
  /\ \E c \in collections : c.born = ncreated /\ c.units # <<>>

\* C4: eviction removes the collections in creation order, so the live
\* collections are always the most recently created ones.
C4_SurvivorsAreNewest ==
  \A c \in collections : c.born > ncreated - Cardinality(collections)

\* the callbacks seen as steps on a source that is new to the registry, or
\* known to it
NewFileAttempt(s) ==
  /\ pc[s] = "loop" /\ queue[s] # <<>>
  /\ FileCat(Head(queue[s])).name \notin Range(rag_sources[s])
  /\ LoadDocNext(s)

KnownFileAttempt(s) ==
  /\ pc[s] = "loop" /\ queue[s] # <<>>
  /\ FileCat(Head(queue[s])).name \in Range(rag_sources[s])
  /\ LoadDocNext(s)

UrlAttempt(s, u) == \E e \in Healthy(Regular) : LoadUrl(s, u, e)

\* C5: files and URLs together, a session registers at most DB_DOCS_LIMIT
\* sources; a new source offered to a full registry is rejected with the
\* error notice and leaves the registry and the collections as they were.
C5_SourceLimit ==
  /\ [](\A s \in Sessions : Len(rag_sources[s]) <= DB_DOCS_LIMIT)
  /\ [][\A s \in Sessions :
          Len(rag_sources[s]) >= DB_DOCS_LIMIT =>
            /\ NewFileAttempt(s) =>
                 /\ "error_max" \in notices'[s]
                 /\ UNCHANGED <<rag_sources, docs, collections, vector_db>>
            /\ \A u \in Urls :
                 (u.name \notin Range(rag_sources[s]) /\ UrlAttempt(s, u)) =>
                   /\ "error_max" \in notices'[s]
                   /\ UNCHANGED <<rag_sources, docs, collections, vector_db>>
      ]_vars

\* C5, witness: a registry of files and a URL is full and a further source
\* has been rejected
C5_Witness ==
  /\ Len(rag_sources[1]) = DB_DOCS_LIMIT
  /\ "error_max" \in notices[1]
  /\ \E u \in Urls : u.name \in Range(rag_sources[1])
  /\ \E k \in Files : FileCat(k).name \in Range(rag_sources[1])

\* the units a collection holds for one source
UnitsOf(c, n) == Cardinality({i \in 1..Len(c.units) : c.units[i].source = n})

\* C6: a source whose name is registered is ignored without a notice in
\* every state of the registry, a full one included: the registry holds no
\* name twice, no temporary file is written, nothing is loaded and nothing
\* is embedded a second time.
C6_DuplicateIgnored ==
  /\ [](\A s \in Sessions : \A i, j \in 1..Len(rag_sources[s]) :
          i # j => rag_sources[s][i] # rag_sources[s][j])
  /\ [](\A c \in collections :
          /\ \A k \in Files :
               UnitsOf(c, FileCat(k).name) <= Len(split_documents(Loaded(FileCat(k))))
          /\ \A u \in Urls : UnitsOf(c, u.name) <= Len(split_documents(Loaded(u))))
  /\ [][\A s \in Sessions :
          /\ KnownFileAttempt(s) =>
               UNCHANGED <<rag_sources, docs, notices, source_files, collections,
                           vector_db>>
          /\ \A u \in Urls :
               (u.name \in Range(rag_sources[s]) /\ UrlAttempt(s, u)) =>
                 /\ notices'[s] = {}
                 /\ UNCHANGED <<rag_sources, docs, source_files, collections,
                                vector_db>>
      ]_vars

\* C6, witness: with a full registry, an upload made of registered names
\* only has been gone through (a file that is registered in the call and
\* brings no document is the last name of the registry)
C6_Witness ==
  /\ Len(rag_sources[1]) = DB_DOCS_LIMIT
  /\ \A k \in Files :
       FileCat(k).name = rag_sources[1][DB_DOCS_LIMIT] => FileCat(k).pages # <<>>
  /\ pc[1] = "loop" /\ queue[1] = <<>>
  /\ notices[1] = {} /\ docs[1] = <<>>

Unsupported(f) == LoaderFor(f) = "unsupported"

\* C8: a file of an unsupported type gets the warning notice; no document
\* is produced for it and its name is never registered or embedded.
C8_UnsupportedSkipped ==
  /\ [](\A k \in Files : Unsupported(FileCat(k)) =>
          /\ \A s \in Sessions :
               /\ FileCat(k).name \notin Range(rag_sources[s])
               /\ \A i \in 1..Len(docs[s]) : docs[s][i].source # FileCat(k).name
          /\ \A c \in collections : UnitsOf(c, FileCat(k).name) = 0)
  /\ [][\A s \in Sessions :
          (pc[s] = "parse" /\ Unsupported(FileCat(Head(queue[s]))) /\ LoadDocParse(s)) =>
            /\ "warning_unsupported" \in notices'[s]
            /\ UNCHANGED <<rag_sources, docs, collections, vector_db>>
      ]_vars

\* C8, witness: the callback has returned from an upload that held a file
\* of an unsupported type next to a supported one
C8_Witness ==
  /\ pc[1] = "idle"
  /\ {"warning_unsupported", "toast_loaded"} \subseteq notices[1]

\* C9: a temporary file of ./source_files exists only while the file it was
\* written for is parsed: it is gone once the parse has succeeded, failed or
\* been refused for the file's type.
C9_TempFileRemoved ==
  \A t \in source_files :
    /\ pc[t.by] = "parse"
    /\ FileCat(Head(queue[t.by])).name = t.name

\* C9, witness: a load has succeeded, a loader has raised and a type has
\* been refused, and no temporary file is left
C9_Witness ==
  /\ pc[1] = "idle"
  /\ {"warning_unsupported", "toast_error"} \subseteq notices[1]
  /\ \E k \in Files : FileCat(k).name \in Range(rag_sources[1])
  /\ source_files = {}

IsPrefix(p, q) == Len(p) <= Len(q) /\ \A i \in 1..Len(p) : q[i] = p[i]

\* the loader of the file at the head of the queue can load it
Loadable(f) == ~Unsupported(f) /\ ~f.raises

\* C11: a file of an upload that is refused for its type, fails to parse or
\* is rejected by the limit leaves the loop running on the files after it
\* with the documents loaded so far; a loadable file is loaded and
\* registered whatever happened to the files before it; the documents of
\* the upload are all embedded at the end; no registered source is lost.
C11_FailureConfined ==
  [][\A s \in Sessions :
       /\ IsPrefix(rag_sources[s], rag_sources'[s])
       /\ (NewFileAttempt(s) /\ Len(rag_sources[s]) >= DB_DOCS_LIMIT) =>
            (pc'[s] = "loop" /\ queue'[s] = Tail(queue[s]) /\ docs'[s] = docs[s])
       /\ (pc[s] = "parse" /\ LoadDocParse(s)) =>
            LET f == FileCat(Head(queue[s]))
            IN  /\ pc'[s] = "loop" /\ queue'[s] = Tail(queue[s])
                /\ IF Loadable(f)
                   THEN /\ docs'[s] = docs[s] \o Loaded(f)
                        /\ rag_sources'[s] = Append(rag_sources[s], f.name)
                   ELSE docs'[s] = docs[s]
       /\ (pc[s] = "loop" /\ queue[s] = <<>> /\ docs[s] # <<>> /\ pc'[s] = "idle") =>
            /\ "toast_loaded" \in notices'[s]
            /\ HasCollection(collections', vector_db'[s])
            /\ \A i \in 1..Len(docs[s]) :
                 UnitsOf(Collection(collections', vector_db'[s]), docs[s][i].source)
                   > IF vector_db[s] # <<>> /\ HasCollection(collections, vector_db[s])
                     THEN UnitsOf(Collection(collections, vector_db[s]), docs[s][i].source)
                     ELSE 0
    ]_vars

\* C11, witness: in one upload a loader raised for one file and the file
\* after it was loaded, registered and embedded
C11_Witness ==
  /\ pc[1] = "idle"
  /\ {"toast_error", "toast_loaded"} \subseteq notices[1]
  /\ rag_sources[1] # <<>>
  /\ rag_sources[1][Len(rag_sources[1])] = FileCat(5).name
  /\ HasCollection(collections, vector_db[1])
  /\ UnitsOf(Collection(collections, vector_db[1]), FileCat(5).name) > 0

\* the user message of a turn
UserMessage(p) == [role |-> "user", content |-> p]

\* C12: a turn that fails before its first fragment fails alone: the
\* messages the list held when the turn began are kept in their order (the
\* turn's user message follows them), the failure changes nothing in the
\* list, and the chat input takes the same prompt again.
C12_FailedTurnKeepsMessages ==
  /\ [][\A s \in Sessions :
          /\ (~Running(s) /\ turn'[s] = "RECEIVED") =>
               \E p \in Prompts : messages'[s] = Append(messages[s], UserMessage(p))
          /\ (turn[s] = "RECEIVED" /\ turn'[s] \in {"RECEIVED", "FAILED"}) =>
               messages'[s] = messages[s]
          /\ (turn[s] = "RECEIVED" /\ turn'[s] = "FAILED") => Idle(s)'
      ]_vars
  /\ [](\A s \in {1} :
          (turn[s] = "FAILED" /\ pc[s] = "idle" /\ Len(messages[s]) < MaxMessages) =>
             ENABLED (\E sc \in Scripts : ChatInput(s, "q", sc)))

\* C12, witness: in a session with a vector_db the same prompt has failed
\* twice before any fragment, the second time on the plain path; the two
\* messages of the initial conversation are still in front
C12_Witness ==
  /\ turn[1] = "FAILED" /\ forwarded[1] = <<>> /\ path[1] = "plain"
  /\ vector_db[1] # <<>>
  /\ messages[1] = InitialMessages \o <<UserMessage("q"), UserMessage("q")>>

\* the collection the session's handle names has been deleted
Evicted(s) == vector_db[s] # <<>> /\ ~HasCollection(collections, vector_db[s])

\* C13: a turn on the retrieval path of a session whose collection was
\* deleted by the eviction pass of another session's create ends with a
\* collection-not-found error of that turn, and the session can go on.
C13_EvictedSearchReported ==
  [][\A s \in Sessions :
       (turn[s] = "RECEIVED" /\ path[s] = "rag" /\ Evicted(s) /\ ~Running(s)') =>
         (error'[s] = "CollectionNotFound" /\ Idle(s)')
    ]_vars

\* the calls of initialize_vector_db that have raced so far
Raced == {r \in Racers : calls[r].pc # "idle"}

\* C14: while calls of initialize_vector_db interleave, the live
\* collections exceed MAX_COLLECTIONS by at most the number of calls that
\* race, and a call that runs alone once the racing calls have finished
\* leaves at most MAX_COLLECTIONS collections.
C14_RaceOvershoot ==
  /\ [](Cardinality(collections) <= MAX_COLLECTIONS + Cardinality(Raced))
  /\ [][(NoneInFlight /\ \E e \in Healthy(Regular) : OtherCreate(e)) =>
          Cardinality(collections') <= MAX_COLLECTIONS]_vars

\* C14, witness: two calls have raced, one of them was stopped by the
\* deletion of a collection the other had deleted, a collection too many
\* was left, and the call that ran alone afterwards has removed it
C14_Witness ==
  /\ Raced = Racers /\ NoneInFlight
  /\ \E r \in Racers : calls[r].pc = "raised"
  /\ ncreated = MAX_COLLECTIONS + MaxRacers + 1
  /\ \E c \in collections : c.born = ncreated
  /\ Cardinality(collections) = MAX_COLLECTIONS

\* C15: the "Use RAG" flag is on only in a session whose vector_db is set,
\* a turn takes the retrieval path only in such a session, and a session
\* that has ingested nothing takes the plain path.
C15_RagNeedsVectorDb ==
  \A s \in Sessions :
    /\ use_rag[s] => vector_db[s] # <<>>
    /\ (turn[s] # "IDLE" /\ path[s] = "rag") => vector_db[s] # <<>>
    /\ rag_sources[s] = <<>> => (~use_rag[s] /\ path[s] = "plain")

\* C15, witness: a session whose vector_db is set has an answer of the
\* plain path in its messages and has taken a turn on the retrieval path
C15_Witness ==
  /\ vector_db[1] # <<>> /\ use_rag[1]
  /\ turn[1] # "IDLE" /\ path[1] = "rag"
  /\ \E i \in 1..Len(messages[1]) : messages[1][i] = [role |-> "assistant", content |-> "Hello"]

\* the collections whose name carries the session id sid
OwnedBy(cols, sid) ==
  {c \in cols :
     /\ Len(c.name) > Len(sid)
     /\ SubSeq(c.name, Len(c.name) - Len(sid) + 1, Len(c.name)) = sid}

\* C16: a session has at most one collection in its lifetime: a collection
\* of the session appears only in the step that sets its handle, the first
\* successful ingestion, and once the handle is set it never changes and
\* no further collection of the session appears.
C16_OneCollectionPerSession ==
  /\ [](\A s \in Sessions : Cardinality(OwnedBy(collections, SessionId(s))) <= 1)
  /\ [][\A s \in Sessions :
          LET new == Names(OwnedBy(collections', SessionId(s)))
                       \ Names(OwnedBy(collections, SessionId(s)))
          IN  IF vector_db[s] = <<>>
              THEN new # {} => (vector_db'[s] # <<>> /\ new = {vector_db'[s]})
              ELSE vector_db'[s] = vector_db[s] /\ new = {}
      ]_vars

\* C17: the request of a turn is the system message, then the messages of
\* the session without any of role system in their order, the last of them
\* the user's latest message; on the retrieval path the chain gets the text
\* of that message as input and the messages before it as history.
C17_PromptComposition ==
  \A s \in Sessions :
    turn[s] = "RECEIVED" =>
      LET ms == messages[s]
          latest == ms[Len(ms)]
      IN  /\ request[s] = <<system_message>> \o ms
          /\ \A i \in 1..Len(ms) : ms[i].role # "system"
          /\ latest.role = "user"
          /\ path[s] = "rag" =>
               /\ ~rag_chain_input(request[s]).raised
               /\ rag_chain_input(request[s]).input = latest.content
               /\ rag_chain_input(request[s]).messages = SubSeq(ms, 1, Len(ms) - 1)

\* C18: a turn whose backend answers and, on the retrieval path, whose
\* collection can be searched goes through to DONE: a turn fails only if
\* the backend raised or the collection of the session is gone.
C18_TurnReachesDone ==
  \A s \in Sessions :
    turn[s] = "FAILED" => (stream[s].fails \/ Evicted(s))

\* C19: while both keys fail the check of app.py 547-549 no turn is taken
\* and no request goes to a completion backend; whenever a turn runs, its
\* model is one on offer and the key of the model's provider has passed the
\* check.
C19_KeyChecked ==
  /\ [](\A s \in Sessions :
          /\ Blocked(s) => (~Running(s) /\ pc[s] # "gen" /\ model[s] = <<>>)
          /\ Running(s) =>
               /\ model[s] \in Range(model_options(openai_api_key[s], anthropic_api_key[s]))
               /\ llm_stream(s).provider = "openai" =>
                    ~missing_openai(llm_stream(s).api_key)
               /\ llm_stream(s).provider = "anthropic" =>
                    ~missing_anthropic(llm_stream(s).api_key))
  /\ [][\A s \in Sessions :
          Blocked(s) => UNCHANGED <<turn[s], messages[s], forwarded[s], pc[s]>>]_vars

\* C19, witness: with an OpenAI key that lacks "sk-" a turn streams from
\* the model of Anthropic, whose key is set
C19_Witness ==
  /\ turn[1] = "STREAMING"
  /\ openai_api_key[1] = <<"a", "b", "c">>
  /\ llm_stream(1).provider = "anthropic"
  /\ messages[1] = Append(InitialMessages, UserMessage("q"))

\* C20: the messages of a session change by the append of one message at
\* their end or by Clear Chat, which leaves the list empty however many
\* turns went before; no message is ever modified, moved or removed alone.
C20_AppendOrClear ==
  [][\A s \in Sessions :
       /\ \/ messages'[s] = messages[s]
          \/ /\ Len(messages'[s]) = Len(messages[s]) + 1
             /\ IsPrefix(messages[s], messages'[s])
          \/ /\ ClearChat(s)
             /\ messages'[s] = <<>>
       /\ ClearChat(s) => messages'[s] = <<>>
    ]_vars

\* C20, witness: the conversation was cleared after a turn that had ended
\* with its assistant message
C20_Witness ==
  /\ messages[1] = <<>>
  /\ turn[1] = "DONE"
  /\ forwarded[1] = <<"Hel", "lo">>

\* the part of a collection name before the "_"
TimeKey(n) == SubSeq(n, 1, CHOOSE i \in 1..Len(n) : n[i] = 95 /\ \A j \in 1..(i - 1) : n[j] # 95)

\* all the sessions of a run
AllSessionIds == {SessionId(k) : k \in 1..(MaxCreates + 2)}

C22_RegisteredMeansEmbedded ==
  \A s \in Sessions :
    pc[s] = "idle" =>
      \A i \in 1..Len(rag_sources[s]) :
        /\ vector_db[s] # <<>>
        /\ HasCollection(collections, vector_db[s])
        /\ UnitsOf(Collection(collections, vector_db[s]), rag_sources[s][i]) > 0

\* C23: calls of initialize_vector_db whose eviction passes interleave all
\* return: none of them is ended by the deletion of a collection that
\* another pass has deleted before.
C23_RacingPassesComplete ==
  \A r \in Racers : calls[r].pc # "raised"

\* C24: sessions that upload files of the same name do not meet in
\* ./source_files: the file a session's loader opens holds the bytes that
\* session wrote, and no callback is ended by the other session's file
\* operations.
C24_UploadsDoNotInterfere ==
  \A s \in Sessions :
    /\ pc[s] = "parse" =>
         [name |-> FileCat(Head(queue[s])).name, by |-> s] \in source_files
    /\ "uncaught" \notin notices[s]

\* C25: the collection a call of initialize_vector_db has created is live
\* when the call returns its handle, however many collections there are.
C25_NewCollectionSurvives ==
  [][\A r \in Racers :
       (calls[r].pc # "returned" /\ calls'[r].pc = "returned") =>
         HasCollection(collections', calls[r].name)
    ]_vars

\* after a step, session s holds a live collection with units of every
\* source of ds, or none of these sources is registered
StoredOrUnregistered(s, ds) ==
  \/ /\ HasCollection(collections', vector_db'[s])
     /\ \A d \in Range(ds) :
          UnitsOf(Collection(collections', vector_db'[s]), d.source) > 0
  \/ \A d \in Range(ds) : d.source \notin Range(rag_sources'[s])

\* C26: the ingestion of a new source by a session whose collection was
\* evicted ends with the source stored in a live collection of the session
\* or with the source not registered.
C26_ReingestAfterEviction ==
  [][\A s \in Sessions :
       /\ (Evicted(s) /\ docs[s] # <<>> /\ \E e \in Healthy(Regular) : LoadDocFinish(s, e))
            => StoredOrUnregistered(s, docs[s])
       /\ \A u \in Urls :
            (Evicted(s) /\ u.name \notin Range(rag_sources[s]) /\ ~u.raises
               /\ \E e \in Healthy(Regular) : LoadUrl(s, u, e))
              => StoredOrUnregistered(s, Loaded(u))
    ]_vars

\* C27: when a turn has ended, by its assistant message or by an error,
\* every user message of the session is followed at once by an assistant
\* message.
C27_EveryUserMessageAnswered ==
  \A s \in Sessions :
    turn[s] \in {"DONE", "FAILED"} =>
      \A i \in 1..Len(messages[s]) :
        messages[s][i].role = "user" =>
          (i < Len(messages[s]) /\ messages[s][i + 1].role = "assistant")

\* C28: throughout a turn the text the generator will store is the
\* concatenation of the fragments it has forwarded so far, and the
\* assistant message appended at the end of the stream has that content,
\* on the plain and on the retrieval path.
C28_StoredIsForwarded ==
  /\ [](\A s \in Sessions :
          Running(s) => response_message[s] = Concat(forwarded[s]))
  /\ [][\A s \in Sessions :
          StreamEnd(s) =>
            messages'[s] =
              Append(messages[s],
                     [role |-> "assistant", content |-> Concat(forwarded[s])])
      ]_vars

\* the callback of the URL input of session s reaches _split_and_load_docs,
\* where OpenAIEmbeddings is built from st.session_state.openai_api_key
EmbeddingCall(s) ==
  /\ \E u \in Urls, e \in Envs(Regular) : LoadUrl(s, u, e)
  /\ rag_sources'[s] # rag_sources[s]

\* C29: every ingestion that reaches the embedding step runs with an
\* OpenAI key that passes the check of app.py 547; a session with an
\* Anthropic key only never gets there.
C29_EmbeddingKeyChecked ==
  [][\A s \in Sessions :
       EmbeddingCall(s) => ~missing_openai(openai_api_key[s])
    ]_vars

\* a step of one of the ingestion callbacks of session s
IngestionStep(s) ==
  \/ pc[s] \in {"loop", "parse"}
  \/ pc'[s] \in {"loop", "parse"}
  \/ <<rag_sources[s], vector_db[s], notices[s]>>' # <<rag_sources[s], vector_db[s], notices[s]>>

\* C30: the step that empties the messages of a session leaves its
\* registry, its handle, its RAG flag and the collections as they are, and
\* no step of an ingestion, accepted, refused or failed, changes the
\* messages.
C30_ClearAndIngestFrames ==
  [][\A s \in Sessions :
       /\ (messages[s] # <<>> /\ messages'[s] = <<>>) =>
            /\ UNCHANGED <<rag_sources[s], vector_db[s], use_rag[s]>>
            /\ UNCHANGED <<collections, source_files>>
       /\ IngestionStep(s) => messages'[s] = messages[s]
    ]_vars

\* C30, witness: after an ingestion that failed and one that stored its
\* source, and after a turn, the conversation was cleared with the RAG
\* flag on
C30_Witness ==
  /\ messages[1] = <<>>
  /\ turn[1] = "DONE"
  /\ nodd = 1
  /\ vector_db[1] # <<>>
  /\ use_rag[1]
  /\ Len(rag_sources[1]) = 2

====
